---- MODULE Spec2Model ----
(***************************************************************************)
(* Model of the Bible reading schedule bot (bot.py) and of its test        *)
(* (test.py).  Texts are TLA+ strings handled character by character, so   *)
(* that parsing and formatting are computed the way the Python code does.  *)
(***************************************************************************)
EXTENDS Integers, Sequences, FiniteSets, TLC

\* ------------------------------------------------------------------------
\* Bounds of the model
\* ------------------------------------------------------------------------

\* Largest number of lines of a schedule file.
MaxRows == 3

\* Largest number of jobs held by the job queue.
MaxJobs == 2

\* ------------------------------------------------------------------------
\* Python string primitives
\* ------------------------------------------------------------------------

\* s[i-1] of Python: the i-th character (1-based) as a one-character string.
Ch(s, i) == SubSeq(s, i, i)

\* s[i-1:] of Python.
From(s, i) == SubSeq(s, i, Len(s))

IsDigit(c) == c \in {"0", "1", "2", "3", "4", "5", "6", "7", "8", "9"}

DigitVal(c) ==
    CASE c = "0" -> 0 [] c = "1" -> 1 [] c = "2" -> 2 [] c = "3" -> 3
      [] c = "4" -> 4 [] c = "5" -> 5 [] c = "6" -> 6 [] c = "7" -> 7
      [] c = "8" -> 8 [] c = "9" -> 9

DigitChar(d) ==
    CASE d = 0 -> "0" [] d = 1 -> "1" [] d = 2 -> "2" [] d = 3 -> "3"
      [] d = 4 -> "4" [] d = 5 -> "5" [] d = 6 -> "6" [] d = 7 -> "7"
      [] d = 8 -> "8" [] d = 9 -> "9"

AllDigits(s) == \A i \in 1..Len(s) : IsDigit(Ch(s, i))

RECURSIVE DigitsVal(_)
\* Value of a string of decimal digits.
DigitsVal(s) ==
    IF Len(s) = 0 THEN 0
    ELSE 10 * DigitsVal(SubSeq(s, 1, Len(s) - 1)) + DigitVal(Ch(s, Len(s)))

RECURSIVE LStrip(_)
LStrip(s) == IF Len(s) > 0 /\ Ch(s, 1) = " " THEN LStrip(From(s, 2)) ELSE s

RECURSIVE RStrip(_)
RStrip(s) ==
    IF Len(s) > 0 /\ Ch(s, Len(s)) = " "
    THEN RStrip(SubSeq(s, 1, Len(s) - 1))
    ELSE s

\* str.strip(): leading and trailing white space removed.
Strip(s) == RStrip(LStrip(s))

RECURSIVE SplitAcc(_, _, _, _)
SplitAcc(s, sep, cur, acc) ==
    IF Len(s) = 0 THEN Append(acc, cur)
    ELSE IF Ch(s, 1) = sep THEN SplitAcc(From(s, 2), sep, "", Append(acc, cur))
    ELSE SplitAcc(From(s, 2), sep, cur \o Ch(s, 1), acc)

\* str.split(sep) for a one-character separator: always at least one part.
Split(s, sep) == SplitAcc(s, sep, "", <<>>)

RECURSIVE DropEmpty(_)
DropEmpty(parts) ==
    IF parts = <<>> THEN <<>>
    ELSE IF Head(parts) = "" THEN DropEmpty(Tail(parts))
    ELSE <<Head(parts)>> \o DropEmpty(Tail(parts))

\* str.split() without separator: runs of white space separate, no empty part.
SplitWs(s) == DropEmpty(Split(s, " "))

\* int(s) succeeds: optional white space around, optional sign, decimal digits.
IntOk(s) ==
    LET t == Strip(s)
        u == IF Len(t) > 0 /\ Ch(t, 1) \in {"+", "-"} THEN From(t, 2) ELSE t
    IN  Len(u) > 0 /\ AllDigits(u)

\* int(s) where IntOk(s).
IntVal(s) ==
    LET t == Strip(s)
    IN  IF Len(t) > 0 /\ Ch(t, 1) = "-" THEN 0 - DigitsVal(From(t, 2))
        ELSE IF Len(t) > 0 /\ Ch(t, 1) = "+" THEN DigitsVal(From(t, 2))
        ELSE DigitsVal(t)

RECURSIVE NatStr(_)
NatStr(n) == IF n < 10 THEN DigitChar(n) ELSE NatStr(n \div 10) \o DigitChar(n % 10)

\* str(n) of an integer.
Str(n) == IF n < 0 THEN "-" \o NatStr(0 - n) ELSE NatStr(n)

RECURSIVE ZeroPad(_, _)
\* Left padding with zeros to a width, as %H, %M, %m, %d and %Y format.
ZeroPad(s, w) == IF Len(s) >= w THEN s ELSE ZeroPad("0" \o s, w)

\* ------------------------------------------------------------------------
\* Dates: datetime.date, strptime and strftime
\* ------------------------------------------------------------------------

Date(y, m, d) == [year |-> y, month |-> m, day |-> d]

\* Placeholder where a record carries no date.
NoDate == Date(0, 0, 0)

IsLeap(y) == (y % 4 = 0 /\ y % 100 # 0) \/ y % 400 = 0

DaysInMonth(y, m) ==
    IF m = 2 THEN (IF IsLeap(y) THEN 29 ELSE 28)
    ELSE IF m \in {4, 6, 9, 11} THEN 30 ELSE 31

\* The directive %m: 1[0-2]|0[1-9]|[1-9]
MonthOk(s) ==
    /\ Len(s) \in {1, 2}
    /\ AllDigits(s)
    /\ DigitsVal(s) \in 1..12

\* The directive %d: 3[01]|[12]\d|0[1-9]|[1-9]| [1-9]
DayOk(s) ==
    \/ /\ Len(s) \in {1, 2}
       /\ AllDigits(s)
       /\ DigitsVal(s) \in 1..31
    \/ /\ Len(s) = 2
       /\ Ch(s, 1) = " "
       /\ IsDigit(Ch(s, 2))
       /\ Ch(s, 2) # "0"

\* The directive %y: \d\d
YearOk(s) == Len(s) = 2 /\ AllDigits(s)

\* Two-digit years: 69..99 are 1969..1999, 00..68 are 2000..2068.
Century(yy) == IF yy >= 69 THEN 1900 + yy ELSE 2000 + yy

\* datetime.datetime.strptime(date_str, "%m-%d-%y").date(): the whole text must
\* be month-day-year, and the three numbers must name a day of the calendar;
\* ok = FALSE stands for the ValueError raised otherwise.
Strptime(date_str) ==
    LET parts == Split(date_str, "-")
    IN  IF Len(parts) # 3 THEN [ok |-> FALSE, date |-> NoDate]
        ELSE IF ~(MonthOk(parts[1]) /\ DayOk(parts[2]) /\ YearOk(parts[3]))
        THEN [ok |-> FALSE, date |-> NoDate]
        ELSE LET y == Century(DigitsVal(parts[3]))
                 m == DigitsVal(parts[1])
                 d == DigitsVal(Strip(parts[2]))
             IN  IF d > DaysInMonth(y, m) THEN [ok |-> FALSE, date |-> NoDate]
                 ELSE [ok |-> TRUE, date |-> Date(y, m, d)]

\* date.strftime('%Y-%m-%d')
StrftimeYmd(date) ==
    ZeroPad(Str(date.year), 4) \o "-" \o ZeroPad(Str(date.month), 2)
        \o "-" \o ZeroPad(Str(date.day), 2)

\* ------------------------------------------------------------------------
\* csv.reader(file, delimiter=',', quotechar='"')
\* ------------------------------------------------------------------------

RECURSIVE CsvScan(_, _, _, _)
\* One line of the file, read character by character.  st is the reader's
\* state: "start" (start of a field), "field" (inside an unquoted field),
\* "quoted" (inside a quoted field), "quote" (a quote seen inside a quoted
\* field).
CsvScan(s, st, cur, acc) ==
    IF Len(s) = 0 THEN Append(acc, cur)
    ELSE LET c == Ch(s, 1)
             rest == From(s, 2)
         IN  CASE st = "start" ->
                    IF c = "\"" THEN CsvScan(rest, "quoted", cur, acc)
                    ELSE IF c = "," THEN CsvScan(rest, "start", "", Append(acc, cur))
                    ELSE CsvScan(rest, "field", cur \o c, acc)
               [] st = "field" ->
                    IF c = "," THEN CsvScan(rest, "start", "", Append(acc, cur))
                    ELSE CsvScan(rest, "field", cur \o c, acc)
               [] st = "quoted" ->
                    IF c = "\"" THEN CsvScan(rest, "quote", cur, acc)
                    ELSE CsvScan(rest, "quoted", cur \o c, acc)
               [] st = "quote" ->
                    IF c = "\"" THEN CsvScan(rest, "quoted", cur \o c, acc)
                    ELSE IF c = "," THEN CsvScan(rest, "start", "", Append(acc, cur))
                    ELSE CsvScan(rest, "field", cur \o c, acc)

\* The row of one line: an empty line is the empty row.
CsvRow(line) == IF Len(line) = 0 THEN <<>> ELSE CsvScan(line, "start", "", <<>>)

\* The rows of a file given as its sequence of lines.
CsvReader(lines) == [i \in 1..Len(lines) |-> CsvRow(lines[i])]

\* ------------------------------------------------------------------------
\* get_todays_bible_reading
\* ------------------------------------------------------------------------

\* Content of a file name under which no file exists.
NoFile == <<"<no file>">>

\* The outcomes of a call: an entry, None, or an exception that leaves it.
BibleReadingScheduleEntry(date, ot_reading, nt_reading) ==
    [kind |-> "entry", date |-> date, ot_reading |-> ot_reading,
     nt_reading |-> nt_reading, exc |-> ""]

ReturnNone ==
    [kind |-> "None", date |-> NoDate, ot_reading |-> "", nt_reading |-> "",
     exc |-> ""]

Raise(exc) ==
    [kind |-> "raise", date |-> NoDate, ot_reading |-> "", nt_reading |-> "",
     exc |-> exc]

\* No call made yet.
NotCalled ==
    [kind |-> "not called", date |-> NoDate, ot_reading |-> "",
     nt_reading |-> "", exc |-> ""]

RECURSIVE ScanRows(_, _)
\* The loop over the rows: the three fields are read first, then the date is
\* parsed inside the try; a ValueError of the parse is swallowed.
ScanRows(rows, today) ==
    IF rows = <<>> THEN ReturnNone
    ELSE LET row == Head(rows)
         IN  IF Len(row) < 1 THEN Raise("IndexError")
             ELSE IF Len(row) < 3 THEN Raise("IndexError")
             ELSE LET date_str == row[1]
                      ot_reading == row[3]
                      nt_reading == row[2]
                      this_date == Strptime(date_str)
                  IN  IF this_date.ok /\ this_date.date = today
                      THEN BibleReadingScheduleEntry(this_date.date, ot_reading,
                                                     nt_reading)
                      ELSE ScanRows(Tail(rows), today)

\* GetTodaysBibleReading taking a missing file for an empty one.
GetTodaysBibleReadingSwallowed(content, today) ==
    IF content = NoFile THEN ReturnNone
    ELSE ScanRows(CsvReader(content), today)

\* get_todays_bible_reading(filename) on a day `today`, content being what
\* the file system holds under filename.
GetTodaysBibleReading(content, today) ==
    IF content = NoFile THEN Raise("FileNotFoundError")
    ELSE ScanRows(CsvReader(content), today)

\* ------------------------------------------------------------------------
\* State
\* ------------------------------------------------------------------------

VARIABLES
    fs,                \* the files: file name -> lines of the file, or NoFile
    today,             \* datetime.date.today()
    found,             \* the last direct call of get_todays_bible_reading
    test_outcome,      \* how test_get_todays_bible_reading ended
    timer_conversations,    \* set_timer_conversation_handler: key -> state
    language_conversations, \* set_language_conversation_handler: key -> state
    user_data,         \* context.user_data: user id -> language entry
    jobs,              \* the job queue: the scheduled jobs, oldest first
    last,              \* the update or job processed last and what the bot did
    running            \* the handler suspended inside send_reminder, if any

vars == <<fs, today, found, test_outcome, timer_conversations,
          language_conversations, user_data, jobs, last, running>>

lookup_vars == <<fs, today, found, test_outcome>>

bot_vars == <<timer_conversations, language_conversations, user_data, jobs, last,
              running>>

\* ------------------------------------------------------------------------
\* Time texts: the parse of specific_set_time and activate_bible_study_reminder
\* ------------------------------------------------------------------------

Time(hour, minute) == [hour |-> hour, minute |-> minute]

TimeOk(t) == [status |-> "ok", t |-> t]

TimeError(exc) == [status |-> exc, t |-> Time(0, 0)]

\* t.strftime("%H:%M")
StrftimeHM(t) == ZeroPad(Str(t.hour), 2) \o ":" \o ZeroPad(Str(t.minute), 2)

\* ActivateParseTime with the two parts taken in the wrong order.
ActivateParseTimeSwapped(time_str) ==
    LET time_parts == Split(time_str, ":")
    IN  IF ~IntOk(time_parts[1]) THEN TimeError("ValueError")
        ELSE IF Len(time_parts) < 2 THEN TimeError("IndexError")
        ELSE IF ~IntOk(time_parts[2]) THEN TimeError("ValueError")
        ELSE LET hour == IntVal(time_parts[2])
                 minute == IntVal(time_parts[1])
             IN  IF hour \in 0..23 /\ minute \in 0..59
                 THEN TimeOk(Time(hour, minute))
                 ELSE TimeError("ValueError")

\* The try block of activate_bible_study_reminder on the stripped text: the
\* status is "ok", or the exception raised ("ValueError" is the one the
\* handler catches).
ActivateParseTime(time_str) ==
    LET time_parts == Split(time_str, ":")
    IN  IF ~IntOk(time_parts[1]) THEN TimeError("ValueError")
        ELSE IF Len(time_parts) < 2 THEN TimeError("IndexError")
        ELSE IF ~IntOk(time_parts[2]) THEN TimeError("ValueError")
        ELSE LET hour == IntVal(time_parts[1])
                 minute == IntVal(time_parts[2])
             IN  IF hour \in 0..23 /\ minute \in 0..59
                 THEN TimeOk(Time(hour, minute))
                 ELSE TimeError("ValueError")

\* The try block of specific_set_time on the stripped first argument.
SpecificParseTime(time_str) ==
    LET time_parts == Split(time_str, ":")
    IN  IF ~IntOk(time_parts[1]) THEN TimeError("ValueError")
        ELSE IF Len(time_parts) < 2 THEN TimeError("IndexError")
        ELSE IF ~IntOk(time_parts[2]) THEN TimeError("ValueError")
        ELSE LET hour == IntVal(time_parts[1])
                 minute == IntVal(time_parts[2])
             IN  IF hour \in 0..23 /\ minute \in 0..59
                 THEN TimeOk(Time(hour, minute))
                 ELSE TimeError("ValueError")

\* ------------------------------------------------------------------------
\* The job queue
\* ------------------------------------------------------------------------

\* context.job_queue.run_daily(remind_bible_study, t, days=(0, ..., 6),
\*                             chat_id=chat_id, name=str(chat_id))
RunDaily(t, chat_id) ==
    [callback |-> "remind_bible_study", time |-> t,
     days |-> <<0, 1, 2, 3, 4, 5, 6>>, chat_id |-> chat_id, name |-> Str(chat_id)]

RECURSIVE SelectJobs(_, _, _)
\* The jobs of q whose name is (keep = TRUE) or is not (keep = FALSE) name.
SelectJobs(q, name, keep) ==
    IF q = <<>> THEN <<>>
    ELSE IF (Head(q).name = name) = keep
         THEN <<Head(q)>> \o SelectJobs(Tail(q), name, keep)
         ELSE SelectJobs(Tail(q), name, keep)

\* context.job_queue.get_jobs_by_name(name)
GetJobsByName(q, name) == SelectJobs(q, name, TRUE)

\* The queue after schedule_removal() of every job of GetJobsByName(q, name).
RemoveJobsByName(q, name) == SelectJobs(q, name, FALSE)

\* ------------------------------------------------------------------------
\* What the bot sends
\* ------------------------------------------------------------------------

SendMessage(chat_id, text) ==
    [method |-> "send_message", chat_id |-> chat_id, text |-> text,
     options |-> <<>>, is_anonymous |-> TRUE]

SendPoll(chat_id, question, options) ==
    [method |-> "send_poll", chat_id |-> chat_id, text |-> question,
     options |-> options, is_anonymous |-> FALSE]

InvalidTimeText == "Invalid time format. Please use the format HH:MM."

ActivatedText(t) ==
    "Activated Bible study reminder daily at " \o StrftimeHM(t) \o " UTC."

CancelledReminderText == "Cancelled Bible study reminder creation."

SelectLanguageText == "Please select your language:"

\* ------------------------------------------------------------------------
\* The updates and their dispatch (main)
\* ------------------------------------------------------------------------

\* The conversations: (chat id, user id).  User 7 writes to the bot in the
\* private chat 7 and in the group chat -20.
Keys == {<<7, 7>>, <<-20, 7>>}

Users == {k[2] : k \in Keys}

\* The message texts of the model.
Texts ==
    {"08:00", "8:00", "25:00", "08:61", "abc", "0800",
     "English", "German", "german",
     "/cancel", "/cancel now",
     "/start", "/respondchatid", "/remindbiblestudy",
     "/deletebiblestudyreminder", "/sst 08:00", "/sst abc", "/sst", "/sst 0800",
     "/createbiblestudyreminder", "/myreminders",
     "/setlang", "/setlang German"}

RECURSIVE UpTo(_, _)
\* The longest prefix of s without the character c.
UpTo(s, c) ==
    IF Len(s) = 0 \/ Ch(s, 1) = c THEN "" ELSE Ch(s, 1) \o UpTo(From(s, 2), c)

\* The command a CommandHandler sees in a message: the text between the
\* leading "/" and the first white space; "" when the message is no command.
CommandOf(text) ==
    IF Len(text) > 1 /\ Ch(text, 1) = "/" THEN UpTo(From(text, 2), " ") ELSE ""

\* context.args of a command: the words after the command.
ArgsOf(text) == Tail(SplitWs(text))

\* The command, the arguments and the two time parses of every text of the
\* model, computed once.
Commands == [text \in Texts |-> CommandOf(text)]

ActivateTimes == [text \in Texts |-> ActivateParseTime(Strip(text))]

\* context.args[0] raises IndexError when the command has no argument.
SpecificTimes ==
    [text \in Texts |->
        IF ArgsOf(text) = <<>> THEN TimeError("IndexError")
        ELSE SpecificParseTime(Strip(ArgsOf(text)[1]))]

\* MessageHandler(None, callback): no filter is every message, commands too.
MessageHandlerNone(text) == TRUE

\* ConversationHandler.check_update: the handler of the conversation that
\* takes the update, "" when none does.  Without a state only the entry
\* point is tried; in a state its handlers first, the fallbacks after them.
ConversationCheck(state, entry_command, entry, in_state, fallback, text) ==
    IF state = "NONE"
    THEN (IF Commands[text] = entry_command THEN entry ELSE "")
    ELSE IF MessageHandlerNone(text) THEN in_state
    ELSE IF Commands[text] = "cancel" THEN fallback
    ELSE ""

TimerCheck(k, text) ==
    ConversationCheck(timer_conversations[k], "createbiblestudyreminder",
                      "create_bible_study_reminder",
                      "activate_bible_study_reminder",
                      "cancel_reminder_creation", text)

LanguageCheck(k, text) ==
    ConversationCheck(language_conversations[k], "setlang",
                      "set_language", "set_language",
                      "cancel_language_setting", text)

\* The handlers in the order main adds them: the first that takes the update
\* handles it and the later ones are not asked.
Route(k, text) ==
    LET command == Commands[text]
    IN  IF command = "start" THEN "start"
        ELSE IF command = "respondchatid" THEN "respond_chat_id"
        ELSE IF command = "remindbiblestudy" THEN "remind_bible_study_once"
        ELSE IF command = "deletebiblestudyreminder" THEN "delete_reminder"
        ELSE IF command = "sst" THEN "specific_set_time"
        ELSE IF TimerCheck(k, text) # "" THEN TimerCheck(k, text)
        ELSE IF command = "myreminders" THEN "send_all_reminders"
        ELSE IF LanguageCheck(k, text) # "" THEN LanguageCheck(k, text)
        ELSE ""

\* The record of an update and of what its handler did.
Handled(k, text, handler, replies, exc) ==
    [chat_id |-> k[1], user_id |-> k[2], text |-> text, handler |-> handler,
     replies |-> replies, exc |-> exc]

\* ------------------------------------------------------------------------
\* send_reminder
\* ------------------------------------------------------------------------

\* The message of a reminder: reading is what get_todays_bible_reading
\* returned (an entry or None), language is context.user_data.get('language').
ReminderMessage(chat_id, language, reading) ==
    IF reading.kind = "entry"
    THEN IF language = "de"
         THEN SendMessage(chat_id,
                "\n            <b>Dies ist eine Erinnerung, die Bibel zu lesen.</b>"
                \o "\n            \n            AT: " \o reading.ot_reading
                \o "\n            NT: " \o reading.nt_reading \o "\n            ")
         ELSE SendMessage(chat_id,
                "\n            <b>This is a reminder to read the Bible.</b>"
                \o "\n            \n            OT: " \o reading.ot_reading
                \o "\n            NT: " \o reading.nt_reading \o "\n            ")
    ELSE IF language = "de"
         THEN SendMessage(chat_id,
                "\n                Dies ist eine Erinnerung, die Bibel zu lesen."
                \o "\n            ")
         ELSE SendMessage(chat_id,
                "\n                This is a reminder to read the Bible."
                \o "\n            ")

\* The poll of a reminder.
ReminderPoll(chat_id, language) ==
    IF language = "de"
    THEN SendPoll(chat_id, "Hast du heute schon die Bibel gelesen?", <<"Ja", "Nein">>)
    ELSE SendPoll(chat_id, "Have you read the Bible today?", <<"Yes", "No">>)

\* send_reminder(context, chat_id) while no other update is processed: what is
\* sent, and the exception that ends it ("" when none does).
SendReminder(chat_id, language, reading) ==
    IF reading.kind = "raise"
    THEN [sent |-> <<>>, exc |-> reading.exc]
    ELSE [sent |-> <<ReminderMessage(chat_id, language, reading),
                     ReminderPoll(chat_id, language)>>,
          exc |-> ""]

\* context.user_data of a callback whose context has no user: None.
NoUserData == "<no user_data>"

\* The user of a job's context: None, run_daily being given a chat_id only.
NoUser == 0

\* send_reminder(context, chat_id) with context.user_data being data: the
\* language entry of a user, or NoUserData, whose .get raises AttributeError.
\* The schedule is read before the language is.
SendReminderWith(chat_id, data, reading) ==
    IF reading.kind = "raise" THEN [sent |-> <<>>, exc |-> reading.exc]
    ELSE IF data = NoUserData THEN [sent |-> <<>>, exc |-> "AttributeError"]
    ELSE SendReminder(chat_id, data, reading)

\* No handler is suspended.
Idle == [at |-> "", chat_id |-> 0, user_id |-> 0, text |-> "", sent |-> <<>>]

\* A handler suspended in send_reminder after the message was sent, sent
\* being what it has sent.
Suspended(k, text, sent) ==
    [at |-> "send_poll", chat_id |-> k[1], user_id |-> k[2], text |-> text,
     sent |-> sent]

\* ------------------------------------------------------------------------
\* The handlers
\* ------------------------------------------------------------------------

start(k, text) ==
    /\ Route(k, text) = "start"
    /\ last' = Handled(k, text, "start",
                 <<SendMessage(k[1], "Hello! I am your Bible reading reminder bot. I can remind you daily to read the Bible. Use /createbiblestudyreminder to create a reminder.")>>,
                 "")
    /\ UNCHANGED <<timer_conversations, language_conversations, user_data, jobs>>
    /\ UNCHANGED <<lookup_vars, running>>

respond_chat_id(k, text) ==
    /\ Route(k, text) = "respond_chat_id"
    /\ last' = Handled(k, text, "respond_chat_id",
                 <<SendMessage(k[1], "Hello, your Chat-ID is: " \o Str(k[1]))>>, "")
    /\ UNCHANGED <<timer_conversations, language_conversations, user_data, jobs>>
    /\ UNCHANGED <<lookup_vars, running>>

remind_bible_study_once(k, text) ==
    /\ Route(k, text) = "remind_bible_study_once"
    /\ LET this_chat_id == k[1]
           todays_bible_reading == GetTodaysBibleReading(fs["schedule.csv"], today)
           r == SendReminder(this_chat_id, user_data[k[2]], todays_bible_reading)
       IN  last' = Handled(k, text, "remind_bible_study_once", r.sent, r.exc)
    /\ UNCHANGED <<timer_conversations, language_conversations, user_data, jobs>>
    /\ UNCHANGED <<lookup_vars, running>>

delete_reminder(k, text) ==
    /\ Route(k, text) = "delete_reminder"
    /\ jobs' = RemoveJobsByName(jobs, Str(k[1]))
    /\ last' = Handled(k, text, "delete_reminder",
                 <<SendMessage(k[1], "Bible study reminder deactivated.")>>, "")
    /\ UNCHANGED <<timer_conversations, language_conversations, user_data>>
    /\ UNCHANGED <<lookup_vars, running>>

\* The value returned on invalid text (SET_TIME) is dropped: the handler is not
\* part of a conversation.
specific_set_time(k, text) ==
    /\ Route(k, text) = "specific_set_time"
    /\ LET p == SpecificTimes[text]
       IN  IF p.status = "ValueError"
           THEN /\ last' = Handled(k, text, "specific_set_time",
                             <<SendMessage(k[1], InvalidTimeText)>>, "")
                /\ UNCHANGED jobs
           ELSE IF p.status # "ok"
           THEN /\ last' = Handled(k, text, "specific_set_time", <<>>, p.status)
                /\ UNCHANGED jobs
           ELSE /\ Len(jobs) < MaxJobs
                /\ jobs' = Append(jobs, RunDaily(p.t, k[1]))
                /\ last' = Handled(k, text, "specific_set_time",
                             <<SendMessage(k[1], ActivatedText(p.t))>>, "")
    /\ UNCHANGED <<timer_conversations, language_conversations, user_data>>
    /\ UNCHANGED <<lookup_vars, running>>

create_bible_study_reminder(k, text) ==
    /\ Route(k, text) = "create_bible_study_reminder"
    /\ timer_conversations' = [timer_conversations EXCEPT ![k] = "SET_TIME"]
    /\ last' = Handled(k, text, "create_bible_study_reminder",
                 <<SendMessage(k[1], "Hey, it is great that you want to read the Bible daily. I will help you with that."),
                   SendMessage(k[1], "Please enter the time when you want to receive the daily reminder in the format HH:MM. The timezone is UTC."),
                   SendMessage(k[1], "You can cancel this process by typing /cancel")>>,
                 "")
    /\ UNCHANGED <<language_conversations, user_data, jobs>>
    /\ UNCHANGED <<lookup_vars, running>>

\* Returns ConversationHandler.END (the conversation of k is over: "NONE") on
\* '/cancel' and on a time, SET_TIME on a ValueError; another exception leaves
\* the handler and the conversation stays as it is.
activate_bible_study_reminder(k, text) ==
    /\ Route(k, text) = "activate_bible_study_reminder"
    /\ IF Strip(text) = "/cancel"
       THEN /\ last' = Handled(k, text, "activate_bible_study_reminder",
                         <<SendMessage(k[1], CancelledReminderText)>>, "")
            /\ timer_conversations' = [timer_conversations EXCEPT ![k] = "NONE"]
            /\ UNCHANGED jobs
       ELSE LET p == ActivateTimes[text]
            IN  IF p.status = "ValueError"
                THEN /\ last' = Handled(k, text, "activate_bible_study_reminder",
                                  <<SendMessage(k[1], InvalidTimeText)>>, "")
                     /\ timer_conversations' =
                            [timer_conversations EXCEPT ![k] = "SET_TIME"]
                     /\ UNCHANGED jobs
                ELSE IF p.status # "ok"
                THEN /\ last' = Handled(k, text, "activate_bible_study_reminder",
                                  <<>>, p.status)
                     /\ UNCHANGED <<timer_conversations, jobs>>
                ELSE /\ Len(jobs) < MaxJobs
                     /\ jobs' = Append(jobs, RunDaily(p.t, k[1]))
                     /\ last' = Handled(k, text, "activate_bible_study_reminder",
                                  <<SendMessage(k[1], ActivatedText(p.t))>>, "")
                     /\ timer_conversations' =
                            [timer_conversations EXCEPT ![k] = "NONE"]
    /\ UNCHANGED <<language_conversations, user_data>>
    /\ UNCHANGED <<lookup_vars, running>>

\* The fallback of the timer conversation.  The dispatcher calls it with
\* (update, context) while the function takes (context, update): its
\* update.message is read from the context, which has none.
cancel_reminder_creation(k, text) ==
    /\ Route(k, text) = "cancel_reminder_creation"
    /\ last' = Handled(k, text, "cancel_reminder_creation", <<>>, "AttributeError")
    /\ UNCHANGED <<timer_conversations, language_conversations, user_data, jobs>>
    /\ UNCHANGED <<lookup_vars, running>>

send_all_reminders(k, text) ==
    /\ Route(k, text) = "send_all_reminders"
    /\ LET js == GetJobsByName(jobs, Str(k[1]))
           line(j) == "- Daily at " \o StrftimeHM(j.time) \o "\n"
           lines[i \in 0..Len(js)] ==
               IF i = 0 THEN "" ELSE lines[i - 1] \o line(js[i])
       IN  IF js = <<>>
           THEN last' = Handled(k, text, "send_all_reminders",
                          <<SendMessage(k[1], "You have no active reminders. Create one with /createbiblestudyreminder.")>>,
                          "")
           ELSE last' = Handled(k, text, "send_all_reminders",
                          <<SendMessage(k[1], "Your active reminders are:\n"
                                \o lines[Len(js)]
                                \o "You can delete them with /deletebiblestudyreminder.")>>,
                          "")
    /\ UNCHANGED <<timer_conversations, language_conversations, user_data, jobs>>
    /\ UNCHANGED <<lookup_vars, running>>

\* LanguageOf looking for the label anywhere among the words of the text.
LanguageOfContained(text) ==
    IF \E i \in 1..Len(SplitWs(text)) : SplitWs(text)[i] = "English" THEN "en"
    ELSE IF \E i \in 1..Len(SplitWs(text)) : SplitWs(text)[i] = "German" THEN "de"
    ELSE ""

\* The comparisons of set_language: the language a message text selects, ""
\* when it selects none.
LanguageOf(text) ==
    IF text = "English" THEN "en"
    ELSE IF text = "German" THEN "de"
    ELSE ""

\* The entry point of the language conversation and the handler of its state
\* SET_LANGUAGE are the same function.
set_language(k, text) ==
    /\ Route(k, text) = "set_language"
    /\ IF LanguageOf(text) = "en"
       THEN /\ user_data' = [user_data EXCEPT ![k[2]] = "en"]
            /\ last' = Handled(k, text, "set_language",
                         <<SendMessage(k[1], "Language set to English")>>, "")
            /\ language_conversations' =
                   [language_conversations EXCEPT ![k] = "NONE"]
       ELSE IF LanguageOf(text) = "de"
       THEN /\ user_data' = [user_data EXCEPT ![k[2]] = "de"]
            /\ last' = Handled(k, text, "set_language",
                         <<SendMessage(k[1], "Sprache auf Deutsch gesetzt")>>, "")
            /\ language_conversations' =
                   [language_conversations EXCEPT ![k] = "NONE"]
       ELSE /\ UNCHANGED user_data
            /\ last' = Handled(k, text, "set_language",
                         <<SendMessage(k[1], SelectLanguageText)>>, "")
            /\ language_conversations' =
                   [language_conversations EXCEPT ![k] = "SET_LANGUAGE"]
    /\ UNCHANGED <<timer_conversations, jobs>>
    /\ UNCHANGED <<lookup_vars, running>>

\* The fallback of the language conversation.
cancel_language_setting(k, text) ==
    /\ Route(k, text) = "cancel_language_setting"
    /\ last' = Handled(k, text, "cancel_language_setting",
                 <<SendMessage(k[1], "Cancelled language setting.")>>, "")
    /\ language_conversations' = [language_conversations EXCEPT ![k] = "NONE"]
    /\ UNCHANGED <<timer_conversations, user_data, jobs>>
    /\ UNCHANGED <<lookup_vars, running>>

\* The job queue runs the job i: remind_bible_study(context) with no update,
\* the chat being the one of the job.  An exception leaves the job scheduled.
remind_bible_study(i) ==
    /\ i \in 1..Len(jobs)
    /\ LET this_chat_id == jobs[i].chat_id
           todays_bible_reading == GetTodaysBibleReading(fs["schedule.csv"], today)
           r == SendReminderWith(this_chat_id, NoUserData, todays_bible_reading)
       IN  last' = Handled(<<this_chat_id, NoUser>>, "", "remind_bible_study",
                           r.sent, r.exc)
    /\ UNCHANGED <<timer_conversations, language_conversations, user_data, jobs>>
    /\ UNCHANGED <<lookup_vars, running>>

\* remind_bible_study_once up to the await of send_message: the schedule is
\* read, then the language, and the message is sent.
remind_bible_study_once_message(k, text) ==
    /\ Route(k, text) = "remind_bible_study_once"
    /\ LET this_chat_id == k[1]
           todays_bible_reading == GetTodaysBibleReading(fs["schedule.csv"], today)
       IN  IF todays_bible_reading.kind = "raise"
           THEN /\ last' = Handled(k, text, "remind_bible_study_once", <<>>,
                                   todays_bible_reading.exc)
                /\ UNCHANGED running
           ELSE /\ running' = Suspended(k, text,
                       <<ReminderMessage(this_chat_id, user_data[k[2]],
                                         todays_bible_reading)>>)
                /\ UNCHANGED last
    /\ UNCHANGED <<timer_conversations, language_conversations, user_data, jobs>>
    /\ UNCHANGED lookup_vars

\* remind_bible_study_once from the return of send_message on: the language
\* is read again and the poll is sent.
remind_bible_study_once_poll ==
    /\ running.at = "send_poll"
    /\ last' = Handled(<<running.chat_id, running.user_id>>, running.text,
                       "remind_bible_study_once",
                       running.sent \o <<ReminderPoll(running.chat_id,
                                                      user_data[running.user_id])>>,
                       "")
    /\ running' = Idle
    /\ UNCHANGED <<timer_conversations, language_conversations, user_data, jobs>>
    /\ UNCHANGED lookup_vars

\* No handler takes the update: it is dropped.
unhandled(k, text) ==
    /\ Route(k, text) = ""
    /\ last' = Handled(k, text, "", <<>>, "")
    /\ UNCHANGED <<timer_conversations, language_conversations, user_data, jobs>>
    /\ UNCHANGED <<lookup_vars, running>>

\* ------------------------------------------------------------------------
\* Direct calls of get_todays_bible_reading, and the test of test.py
\* ------------------------------------------------------------------------

TESTFILE == "schedule_test.csv"

\* A call, with the content the file had and the day it was made on.
Called(filename, content, date, result) ==
    [filename |-> filename, content |-> content, today |-> date,
     result |-> result]

get_todays_bible_reading(filename) ==
    /\ found' = Called(filename, fs[filename], today,
                       GetTodaysBibleReading(fs[filename], today))
    /\ UNCHANGED <<fs, today, test_outcome>>
    /\ UNCHANGED bot_vars

\* The lines the test writes.
TestLines(date) ==
    <<"2022-01-01;Matthew 1;Genesis 1",
      "2022-01-02;Matthew 2;Genesis 2",
      "2022-01-03;Matthew 3;Genesis 3",
      StrftimeYmd(date) \o ";Matthew 4;Genesis 4">>

\* test_get_todays_bible_reading: writes the file, calls the lookup on it and
\* asserts the entry found to be the expected one.
test_get_todays_bible_reading ==
    LET content == TestLines(today)
        expected_entry == BibleReadingScheduleEntry(today, "Genesis 4", "Matthew 4")
        found_entry == GetTodaysBibleReading(content, today)
    IN  /\ fs' = [fs EXCEPT ![TESTFILE] = content]
        /\ found' = Called(TESTFILE, content, today, found_entry)
        /\ test_outcome' =
               IF found_entry.kind = "raise" THEN found_entry.exc
               ELSE IF found_entry = expected_entry THEN "passed"
               ELSE "AssertionError"
        /\ UNCHANGED today
        /\ UNCHANGED bot_vars

\* ------------------------------------------------------------------------
\* Specifications
\* ------------------------------------------------------------------------

\* The bot right after main has built the application.
BotInit ==
    /\ timer_conversations = [k \in Keys |-> "NONE"]
    /\ language_conversations = [k \in Keys |-> "NONE"]
    /\ user_data = [u \in Users |-> "None"]
    /\ jobs = <<>>
    /\ last = Handled(<<0, 0>>, "", "", <<>>, "")
    /\ running = Idle

\* The schedule files the bot is run with.
BotSchedules ==
    {<<"Date,NT,OT", "01-01-22,Matthew 1,Genesis 1", "01-02-22,Matthew 2,Genesis 2">>}

Init ==
    /\ fs \in {[f \in {"schedule.csv", TESTFILE} |->
                  IF f = TESTFILE THEN NoFile ELSE c] : c \in BotSchedules}
    /\ today = Date(2022, 1, 1)
    /\ found = Called("", NoFile, NoDate, NotCalled)
    /\ test_outcome = "not run"
    /\ BotInit

\* The fallbacks cancel_reminder_creation and cancel_language_setting are no
\* disjuncts: Route never yields them (FallbacksNeverRouted).
Next ==
    \/ \E k \in Keys, text \in Texts :
        \/ start(k, text)
        \/ respond_chat_id(k, text)
        \/ remind_bible_study_once(k, text)
        \/ delete_reminder(k, text)
        \/ specific_set_time(k, text)
        \/ create_bible_study_reminder(k, text)
        \/ activate_bible_study_reminder(k, text)
        \/ send_all_reminders(k, text)
        \/ set_language(k, text)
        \/ unhandled(k, text)
    \/ \E i \in 1..MaxJobs : remind_bible_study(i)

Spec == Init /\ [][Next]_vars

\* In no state is an update routed to a fallback of a conversation.
FallbacksNeverRouted ==
    \A k \in Keys, text \in Texts :
        Route(k, text) \notin {"cancel_reminder_creation", "cancel_language_setting"}

\* The lines schedule files are made of.
ScheduleLines ==
    {"Date,NT,OT",
     "01-01-22,Matthew 1,Genesis 1",
     "1-1-22,Matthew 2,Genesis 2",
     "01-02-22,Matthew 3,\"Genesis 3\"",
     "02-30-22,Matthew 5,Genesis 5",
     "01-01-22,Matthew 4",
     "Date",
     ""}

\* The days the lookup is made on.
Days == {Date(2022, 1, 1), Date(2022, 1, 2), Date(2026, 11, 3)}

LookupInit ==
    /\ fs \in {[f \in {"schedule.csv", TESTFILE} |->
                  IF f = TESTFILE THEN NoFile ELSE c] :
               c \in {NoFile} \cup UNION {[1..n -> ScheduleLines] : n \in 0..MaxRows}}
    /\ today \in Days
    /\ found = Called("", NoFile, NoDate, NotCalled)
    /\ test_outcome = "not run"
    /\ BotInit

LookupNext ==
    \/ \E filename \in {"schedule.csv", TESTFILE} : get_todays_bible_reading(filename)
    \/ test_get_todays_bible_reading

SpecLookup == LookupInit /\ [][LookupNext]_vars

\* The reminders in detail: send_reminder takes two steps, and the schedule
\* file may be missing or hold no entry for the day.

\* The messages of the reminder runs.
ReminderTexts ==
    {"/setlang", "English", "German", "/remindbiblestudy", "/sst 08:00",
     "/deletebiblestudyreminder"}

\* The application started with concurrent updates.
UpdateFetcherConcurrent(r) == TRUE

\* The application main builds processes one update at a time: the next
\* update is taken once the handler of the one before has returned.
UpdateFetcherFree(r) == r = Idle

ReminderInit ==
    /\ fs \in {[f \in {"schedule.csv", TESTFILE} |->
                  IF f = TESTFILE THEN NoFile ELSE c] :
               c \in BotSchedules \cup {NoFile}}
    /\ today \in {Date(2022, 1, 1), Date(2026, 11, 3)}
    /\ found = Called("", NoFile, NoDate, NotCalled)
    /\ test_outcome = "not run"
    /\ BotInit

\* Jobs run whenever they are due, between the steps of a handler too.
ReminderNext ==
    \/ \E k \in Keys, text \in ReminderTexts :
        \/ UpdateFetcherFree(running) /\ set_language(k, text)
        \/ UpdateFetcherFree(running) /\ remind_bible_study_once_message(k, text)
        \/ UpdateFetcherFree(running) /\ specific_set_time(k, text)
        \/ UpdateFetcherFree(running) /\ delete_reminder(k, text)
        \/ UpdateFetcherFree(running) /\ unhandled(k, text)
    \/ remind_bible_study_once_poll
    \/ \E i \in 1..MaxJobs : remind_bible_study(i)

SpecReminder == ReminderInit /\ [][ReminderNext]_vars

\* ------------------------------------------------------------------------
\* Claims about the schedule lookup (under SpecLookup)
\* ------------------------------------------------------------------------

\* A direct call was made on a file that exists.
LookupDone == found.result.kind # "not called" /\ found.content # NoFile

\* The row has a date field and it parses, in the format MM-DD-YY, to date.
RowIsFor(row, date) ==
    /\ Len(row) >= 1
    /\ Strptime(row[1]).ok
    /\ Strptime(row[1]).date = date

\* The row has a date field and it does not parse.
RowDoesNotParse(row) == Len(row) >= 1 /\ ~Strptime(row[1]).ok

RECURSIVE WithoutUnparsed(_)
\* The rows without those whose date field does not parse.
WithoutUnparsed(rows) ==
    IF rows = <<>> THEN <<>>
    ELSE IF RowDoesNotParse(Head(rows)) THEN WithoutUnparsed(Tail(rows))
    ELSE <<Head(rows)>> \o WithoutUnparsed(Tail(rows))

\* C1: whenever some row of the file is for the target date, the lookup
\* returns the entry of the first such row in file order, its old-testament
\* reading being the row's third field and its new-testament reading the
\* row's second field.
C1_FirstMatchReturned ==
    LookupDone =>
        LET rows == CsvReader(found.content)
        IN  \A i \in 1..Len(rows) :
                ( /\ RowIsFor(rows[i], found.today)
                  /\ Len(rows[i]) >= 3
                  /\ \A j \in 1..(i - 1) : ~RowIsFor(rows[j], found.today) )
                => found.result =
                       BibleReadingScheduleEntry(found.today, rows[i][3], rows[i][2])

\* C2: on a readable file of any rows (empty and short ones too) none of which
\* is for the target date, the lookup returns None and does not raise.
C2_AbsentDateIsNone ==
    LookupDone =>
        LET rows == CsvReader(found.content)
        IN  (\A i \in 1..Len(rows) : ~RowIsFor(rows[i], found.today))
            => found.result = ReturnNone

\* C3: a row whose date field does not parse is skipped silently: the lookup
\* ends as it does on the file without these rows (it does not abort on them,
\* they match no date, the rows after them are still scanned).
C3_UnparsedRowsSkipped ==
    LookupDone =>
        found.result = ScanRows(WithoutUnparsed(CsvReader(found.content)), found.today)

\* C4: on the file the test writes (rows for other days, then the row of
\* today), the lookup returns the entry of today with 'Genesis 4' as
\* old-testament and 'Matthew 4' as new-testament reading: the test passes.
C4_TestFindsTodaysEntry ==
    /\ test_outcome \in {"not run", "passed"}
    /\ (found.filename = TESTFILE /\ found.content = TestLines(found.today))
       => found.result =
              BibleReadingScheduleEntry(found.today, "Genesis 4", "Matthew 4")

\* ------------------------------------------------------------------------
\* Claims about the conversation flows (under Spec)
\* ------------------------------------------------------------------------

\* The step processes the update with this text in the conversation k.
Processes(k, text) ==
    /\ last'.chat_id = k[1]
    /\ last'.user_id = k[2]
    /\ last'.text = text

\* The text is two integers HH:MM, hour 0..23 and minute 0..59.
IsHHMM(text) ==
    LET parts == Split(text, ":")
    IN  /\ Len(parts) = 2
        /\ Len(parts[1]) \in {1, 2} /\ AllDigits(parts[1])
        /\ Len(parts[2]) \in {1, 2} /\ AllDigits(parts[2])
        /\ DigitsVal(parts[1]) \in 0..23
        /\ DigitsVal(parts[2]) \in 0..59

HHMMTexts == {text \in Texts : IsHHMM(text)}

\* The texts that are a /cancel command.
CancelTexts == {text \in Texts : Commands[text] = "cancel"}

\* The texts that are no command.
PlainTexts == {text \in Texts : Commands[text] = ""}

\* The texts that hold a recognized language label after the /setlang command.
LabelIn(text) ==
    IF \E i \in 1..Len(SplitWs(text)) : SplitWs(text)[i] = "German" THEN "de"
    ELSE IF \E i \in 1..Len(SplitWs(text)) : SplitWs(text)[i] = "English" THEN "en"
    ELSE ""

SetlangLabelTexts == {text \in Texts : Commands[text] = "setlang" /\ LabelIn(text) # ""}

\* C5: a message the timer flow receives in AWAITING_INPUT that is no /cancel
\* and not a time HH:MM is answered with the invalid-time error, the flow
\* stays in AWAITING_INPUT and the jobs are unchanged.
C5_InvalidTimeKeepsAwaiting ==
    [][\A k \in Keys, text \in Texts \ (HHMMTexts \cup CancelTexts) :
          ( /\ timer_conversations[k] = "SET_TIME"
            /\ Processes(k, text)
            /\ last'.handler = "activate_bible_study_reminder" )
          => /\ last'.replies = <<SendMessage(k[1], InvalidTimeText)>>
             /\ timer_conversations'[k] = "SET_TIME"
             /\ jobs' = jobs]_vars

\* C6: a time HH:MM sent in AWAITING_INPUT of the timer flow registers exactly
\* one new daily job with that time, all seven weekdays, the chat id of the
\* sender and the name str(chat_id), and ends the flow; a plain message that
\* arrives when the flow of the conversation is over is not taken as a time.
C6_ValidTimeRegistersOneJob ==
    [][\A k \in Keys :
          /\ \A text \in HHMMTexts :
                (timer_conversations[k] = "SET_TIME" /\ Processes(k, text))
                => /\ jobs' = Append(jobs,
                         [callback |-> "remind_bible_study",
                          time |-> [hour |-> DigitsVal(Split(text, ":")[1]),
                                    minute |-> DigitsVal(Split(text, ":")[2])],
                          days |-> <<0, 1, 2, 3, 4, 5, 6>>,
                          chat_id |-> k[1],
                          name |-> Str(k[1])])
                   /\ timer_conversations'[k] = "NONE"
          /\ \A text \in PlainTexts :
                (timer_conversations[k] = "NONE" /\ Processes(k, text))
                => /\ jobs' = jobs
                   /\ last'.handler # "activate_bible_study_reminder"]_vars

\* A time was sent in the flow of the private chat: its job is the only one,
\* and the flow is over.
C6_Witness ==
    /\ last.handler = "activate_bible_study_reminder"
    /\ last.text = "08:00"
    /\ last.chat_id = 7
    /\ Len(jobs) = 1
    /\ jobs[1].time = Time(8, 0)
    /\ jobs[1].name = "7"
    /\ timer_conversations[<<7, 7>>] = "NONE"

\* C7: every /cancel command received in AWAITING_INPUT of the timer flow ends
\* the flow, is answered with the cancellation text and leaves the jobs
\* unchanged.
C7_CancelEndsTimerFlow ==
    [][\A k \in Keys, text \in CancelTexts :
          (timer_conversations[k] = "SET_TIME" /\ Processes(k, text))
          => /\ timer_conversations'[k] = "NONE"
             /\ last'.replies = <<SendMessage(k[1], CancelledReminderText)>>
             /\ jobs' = jobs]_vars

\* C8: a /cancel command received in AWAITING_INPUT of the language flow ends
\* the flow and leaves the stored language unchanged.
C8_CancelEndsLanguageFlow ==
    [][\A k \in Keys :
          ( /\ language_conversations[k] = "SET_LANGUAGE"
            /\ timer_conversations[k] = "NONE"
            /\ Processes(k, "/cancel") )
          => /\ language_conversations'[k] = "NONE"
             /\ user_data' = user_data]_vars

\* C9 as claimed: the set-language command invoked with a message that holds a
\* recognized label ('/setlang German') sets the language at once and ends the
\* flow without AWAITING_INPUT.
C9_LabelInCommandSetsLanguage ==
    [][\A k \in Keys, text \in SetlangLabelTexts :
          (Processes(k, text) /\ last'.handler = "set_language")
          => /\ user_data'[k[2]] = LabelIn(text)
             /\ language_conversations'[k] = "NONE"]_vars

\* C9 as amended: the set-language command, whatever follows it in the message
\* ('/setlang' or '/setlang German'), leaves the language unchanged, presents
\* the choice and enters AWAITING_INPUT; the language changes only on a
\* message that is exactly 'English' or 'German', received in AWAITING_INPUT.
C9_CommandAlwaysPrompts ==
    [][/\ \A k \in Keys, text \in {t \in Texts : Commands[t] = "setlang"} :
             (Processes(k, text) /\ last'.handler = "set_language")
             => /\ user_data' = user_data
                /\ last'.replies = <<SendMessage(k[1], SelectLanguageText)>>
                /\ language_conversations'[k] = "SET_LANGUAGE"
       /\ user_data' # user_data
          => /\ last'.text \in {"English", "German"}
             /\ language_conversations[<<last'.chat_id, last'.user_id>>]
                    = "SET_LANGUAGE"]_vars

\* '/setlang German' started the language flow: the choice is presented and
\* no language is stored.
C9_Witness ==
    /\ last.text = "/setlang German"
    /\ last.handler = "set_language"
    /\ last.replies = <<SendMessage(last.chat_id, SelectLanguageText)>>
    /\ language_conversations[<<last.chat_id, last.user_id>>] = "SET_LANGUAGE"
    /\ user_data[last.user_id] = "None"

\* C10: whenever the language flow is in AWAITING_INPUT (the timer flow of the
\* same chat started meanwhile or not), the next message that is exactly
\* 'English' or 'German' sets the language to en or de and ends the flow; any
\* other plain text presents the choice again, the flow stays in
\* AWAITING_INPUT and the language is unchanged.
C10_LanguageFlowTakesNextMessage ==
    [][\A k \in Keys, text \in PlainTexts :
          (language_conversations[k] = "SET_LANGUAGE" /\ Processes(k, text))
          => IF text = "English"
             THEN user_data'[k[2]] = "en" /\ language_conversations'[k] = "NONE"
             ELSE IF text = "German"
             THEN user_data'[k[2]] = "de" /\ language_conversations'[k] = "NONE"
             ELSE /\ last'.replies = <<SendMessage(k[1], SelectLanguageText)>>
                  /\ language_conversations'[k] = "SET_LANGUAGE"
                  /\ user_data' = user_data]_vars

\* ------------------------------------------------------------------------
\* Claims about the job registry (under Spec)
\* ------------------------------------------------------------------------

DeactivatedText == "Bible study reminder deactivated."

NoActiveRemindersText ==
    "You have no active reminders. Create one with /createbiblestudyreminder."

\* C11: /deletebiblestudyreminder from a chat without a job leaves the job
\* queue as it is and is answered by one message that does not report a
\* deactivation.
C11_DeleteWithoutJobsReportsNone ==
    [][\A k \in Keys, text \in Texts :
          (/\ Processes(k, text)
           /\ last'.handler = "delete_reminder"
           /\ GetJobsByName(jobs, Str(k[1])) = <<>>)
          => /\ jobs' = jobs
             /\ Len(last'.replies) = 1
             /\ last'.replies[1].chat_id = k[1]
             /\ last'.replies[1].text # DeactivatedText]_vars

\* The texts that are the list command.
ListTexts == {text \in Texts : Commands[text] = "myreminders"}

\* C12: /deletebiblestudyreminder from a chat removes every job named
\* str(chat_id) and leaves the jobs of the other chats, in their order; a list
\* command that follows it from the same chat and user is answered with the
\* no-active-reminders text; and a job runs for a chat only while the chat has
\* a job.
C12_DeleteCancelsAllJobsOfChat ==
    [][/\ \A k \in Keys, text \in Texts :
             (Processes(k, text) /\ last'.handler = "delete_reminder")
             => /\ GetJobsByName(jobs', Str(k[1])) = <<>>
                /\ SelectJobs(jobs', Str(k[1]), FALSE)
                       = SelectJobs(jobs, Str(k[1]), FALSE)
       /\ \A k \in Keys, text \in ListTexts :
             (/\ last.handler = "delete_reminder"
              /\ last.chat_id = k[1] /\ last.user_id = k[2]
              /\ Processes(k, text))
             => last'.replies = <<SendMessage(k[1], NoActiveRemindersText)>>
       /\ last'.handler = "remind_bible_study"
             => GetJobsByName(jobs, Str(last'.chat_id)) # <<>>]_vars

\* The chats of the model.
Chats == {k[1] : k \in Keys}

\* C13: in every state at most one job carries the name str(chat_id), for
\* every chat.
C13_AtMostOneJobPerChat ==
    \A chat_id \in Chats : Len(GetJobsByName(jobs, Str(chat_id))) <= 1

\* ------------------------------------------------------------------------
\* Claims about the reminders (under SpecReminder)
\* ------------------------------------------------------------------------

\* What get_todays_bible_reading gives the reminders of the run.
TodaysReading == GetTodaysBibleReading(fs["schedule.csv"], today)

\* The step ends a reminder: a job has run, or /remindbiblestudy is through.
ReminderEnds ==
    /\ last'.handler \in {"remind_bible_study", "remind_bible_study_once"}
    /\ last' # last

\* The message and the poll of a reminder for the chat in the language kept
\* as language ("None" when none was set): German for "de", English otherwise.
LocalizedReminder(chat_id, language, reading) ==
    <<ReminderMessage(chat_id, language, reading), ReminderPoll(chat_id, language)>>

\* The language reminders are composed in when the entry kept is language:
\* German for "de", English for "en" and when none was set.
Composing(language) == IF language = "de" THEN "de" ELSE "en"

\* C14: the language of a chat's reminders is set by the Set-Language flow of
\* that chat only (a flow step in another chat leaves it as it is); a
\* /remindbiblestudy reminder is composed in it, English when none is set;
\* and a job that runs, the schedule being readable, delivers the message and
\* the poll to its chat, in the language of a conversation of that chat.
C14_RemindersInLanguageOfChat ==
    [][/\ \A k \in Keys, text \in ReminderTexts :
             (Processes(k, text) /\ last'.handler = "set_language")
             => \A other \in Keys :
                   other[1] # k[1]
                   => Composing(user_data'[other[2]]) = Composing(user_data[other[2]])
       /\ (ReminderEnds /\ last'.handler = "remind_bible_study_once"
               /\ TodaysReading.kind # "raise")
             => last'.replies = LocalizedReminder(last'.chat_id,
                                    Composing(user_data[last'.user_id]),
                                    TodaysReading)
       /\ (ReminderEnds /\ last'.handler = "remind_bible_study"
               /\ TodaysReading.kind # "raise")
             => \E k \in Keys :
                   /\ k[1] = last'.chat_id
                   /\ last'.replies = LocalizedReminder(last'.chat_id,
                                          Composing(user_data[k[2]]),
                                          TodaysReading)]_vars

\* C15: every reminder that ends while schedule.csv is there, with or without
\* an entry for the day, has sent one non-empty message and then one poll,
\* both to the chat of the reminder, the poll with two options and not
\* anonymous; without an entry the message is the generic text of a language.
C15_ReminderIsMessageThenPoll ==
    [][(ReminderEnds /\ fs["schedule.csv"] # NoFile
             /\ TodaysReading.kind \in {"entry", "None"})
          => /\ Len(last'.replies) = 2
             /\ last'.replies[1].method = "send_message"
             /\ last'.replies[1].text # ""
             /\ last'.replies[2].method = "send_poll"
             /\ last'.replies[1].chat_id = last'.chat_id
             /\ last'.replies[2].chat_id = last'.chat_id
             /\ Len(last'.replies[2].options) = 2
             /\ ~last'.replies[2].is_anonymous
             /\ TodaysReading.kind = "None"
                => \E language \in {"en", "de"} :
                      last'.replies[1]
                          = ReminderMessage(last'.chat_id, language, ReturnNone)]_vars

\* C16: while schedule.csv is missing, a reminder (of a job or of
\* /remindbiblestudy) ends with the FileNotFoundError of the read and has sent
\* nothing; no handler is left waiting to send, and the job queue is as before
\* (nothing is scheduled to try again).
C16_MissingFileAbortsReminder ==
    [][fs["schedule.csv"] = NoFile
          => /\ running' = Idle
             /\ ReminderEnds
                => /\ last'.exc = "FileNotFoundError"
                   /\ last'.replies = <<>>
                   /\ jobs' = jobs]_vars

\* A job ran without schedule.csv: FileNotFoundError, nothing sent, the job
\* still in the queue.
C16_Witness ==
    /\ fs["schedule.csv"] = NoFile
    /\ last.handler = "remind_bible_study"
    /\ last.exc = "FileNotFoundError"
    /\ last.replies = <<>>
    /\ GetJobsByName(jobs, Str(last.chat_id)) # <<>>

\* ------------------------------------------------------------------------
\* Claims about the commands in every state of the flows (under Spec)
\* ------------------------------------------------------------------------

RECURSIVE JobLines(_)
\* One line per job, with its time of day.
JobLines(js) ==
    IF js = <<>> THEN ""
    ELSE "- Daily at " \o StrftimeHM(Head(js).time) \o "\n" \o JobLines(Tail(js))

\* The answer to the list command in a chat whose jobs are js.
ListAnswer(chat_id, js) ==
    IF js = <<>> THEN SendMessage(chat_id, NoActiveRemindersText)
    ELSE SendMessage(chat_id, "Your active reminders are:\n" \o JobLines(js)
                              \o "You can delete them with /deletebiblestudyreminder.")

\* C17: in every state, the flows awaiting input or not, /myreminders is
\* answered with the list of the jobs named str(chat_id), one line each, or
\* with the no-active-reminders text, and changes neither the job queue nor
\* the state of a flow.
C17_ListAnsweredInEveryState ==
    [][\A k \in Keys, text \in ListTexts :
          Processes(k, text)
          => /\ last'.replies = <<ListAnswer(k[1], GetJobsByName(jobs, Str(k[1])))>>
             /\ jobs' = jobs
             /\ timer_conversations' = timer_conversations
             /\ language_conversations' = language_conversations]_vars

\* C18: a step made in one chat (an update handled, a job run) leaves to every
\* conversation of another chat the language its reminders are composed in,
\* the jobs named after that chat, and the state of its two flows, the same
\* user writing in both chats or not.
C18_ChatsAreDisjoint ==
    [][\A other \in Keys :
          other[1] # last'.chat_id
          => /\ Composing(user_data'[other[2]]) = Composing(user_data[other[2]])
             /\ GetJobsByName(jobs', Str(other[1])) = GetJobsByName(jobs, Str(other[1]))
             /\ timer_conversations'[other] = timer_conversations[other]
             /\ language_conversations'[other] = language_conversations[other]]_vars

\* The /sst messages that carry an argument text.
SstTexts == {text \in Texts : Commands[text] = "sst" /\ ArgsOf(text) # <<>>}

\* The text after the command of a /sst message.
SstArgument(text) == Strip(From(text, Len("/sst") + 1))

\* What the multi-turn flow makes of the argument text of each /sst message.
FlowTimes == [text \in SstTexts |-> ActivateParseTime(Strip(SstArgument(text)))]

\* C19: '/sst <text>' is handled in one step by specific_set_time: when the
\* flow would accept the text it adds the job the flow would add (same time,
\* chat_id and name); otherwise it adds no job and answers with the
\* invalid-time error; and it leaves the state of both flows as it is.
C19_SstSameAsFlow ==
    [][\A k \in Keys, text \in SstTexts :
          Processes(k, text)
          => /\ last'.handler = "specific_set_time"
             /\ IF FlowTimes[text].status = "ok"
                THEN jobs' = Append(jobs, RunDaily(FlowTimes[text].t, k[1]))
                ELSE /\ jobs' = jobs
                     /\ last'.replies = <<SendMessage(k[1], InvalidTimeText)>>
             /\ timer_conversations' = timer_conversations
             /\ language_conversations' = language_conversations]_vars

\* ------------------------------------------------------------------------
\* Claim about the two language reads of send_reminder (under SpecReminder)
\* ------------------------------------------------------------------------

====
